---- MODULE Spec2Model ----
(***************************************************************************)
(* State-machine model of the two sensor drivers of rpi-toys:              *)
(*   src/sht31.py    class SHT31    (temperature / humidity, I2C)          *)
(*   src/tsl2591.py  class TSL2591  (ambient light, I2C)                   *)
(*                                                                         *)
(* One driver object is constructed per behaviour (obj says which).  The   *)
(* clock `now` counts milliseconds; it advances only where the code sleeps *)
(* (time.sleep) and between calls (Idle).  Every bus transaction may fail  *)
(* with OSError.  `last` records the most recent call: its name, argument, *)
(* exception, return value and the bus transactions it issued.             *)
(***************************************************************************)
EXTENDS Integers, Sequences, FiniteSets, TLC

VARIABLES
    obj,                \* "none" | "SHT31" | "TSL2591" | "failed"
    now,                \* time.time(), in ms
    calls,              \* number of driver calls made so far
    last,               \* the last call
    \* ---- SHT31 attributes
    repeatability,      \* self.__repeatability
    clock_stretch,      \* self.__clock_stretch
    periodic_interval,  \* self.__periodic_interval
    __periodic_mode,    \* self.__periodic_mode : None (unset) or <<bool>>
    _periodic_next,     \* self._periodic_next  : None or <<ms>>
    _periodic_wait,     \* self._periodic_wait  : None or <<ms>>
    \* ---- SHT31 device
    alert_regs,         \* the alert limits: the three bytes last written to each
    \* ---- TSL2591 attributes
    _aien, _npien, _sai,    \* the constructor's interrupt flags
    _again,             \* cached gain multiplier     (1.0, 25.0, 428.0, 9876.0)
    _atime,             \* cached integration time, ms (100.0 .. 600.0)
    _wait,              \* self._wait, in ms
    _next,              \* self._next : None or <<ms>>
    saturated,          \* self.saturated
    pc,                 \* "idle", or "on_poll" inside the polling loop of on()
    \* ---- TSL2591 device registers
    reg_enable,         \* REGISTER_ENABLE
    reg_control,        \* REGISTER_CONTROL
    reg_status,         \* REGISTER_STATUS
    reg_persist,        \* REGISTER_PERSIST (0x0C)
    reg_reserved,       \* the register after it (0x0D)
    \* ---- two threads that call the gain and the time setter of one handle
    rmw                 \* per setter: where its thread is, with val and cur

shtVars == <<repeatability, clock_stretch, periodic_interval,
             __periodic_mode, _periodic_next, _periodic_wait, alert_regs>>
tslVars == <<_aien, _npien, _sai, _again, _atime, _wait, _next, saturated, pc,
             reg_enable, reg_control, reg_status, reg_persist, reg_reserved, rmw>>
vars == <<obj, now, calls, last, shtVars, tslVars>>

(***************************************************************************)
(* Bounds of the model                                                     *)
(***************************************************************************)
MaxTime  == 2200     \* the clock is explored up to this many ms
MaxCalls == 4        \* driver calls per behaviour, construction not counted

(***************************************************************************)
(* Python values                                                           *)
(***************************************************************************)
None == <<>>
Some(x) == <<x>>
Val(o) == o[1]
\* t[i] for a Python tuple t and a Python index i (negative counts from the end)
InRange(t, i) == i >= -Len(t) /\ i < Len(t)
Idx(t, i) == IF i >= 0 THEN t[i + 1] ELSE t[Len(t) + i + 1]
PyIntOfBool(b) == IF b THEN 1 ELSE 0

RECURSIVE BitXor(_, _)
BitXor(a, b) ==
    IF a = 0 THEN b
    ELSE IF b = 0 THEN a
    ELSE (((a % 2) + (b % 2)) % 2) + 2 * BitXor(a \div 2, b \div 2)

RECURSIVE BitAnd(_, _)
BitAnd(a, b) ==
    IF a = 0 \/ b = 0 THEN 0
    ELSE ((a % 2) * (b % 2)) + 2 * BitAnd(a \div 2, b \div 2)

RECURSIVE BitOr(_, _)
BitOr(a, b) ==
    IF a = 0 THEN b
    ELSE IF b = 0 THEN a
    ELSE (IF a % 2 = 1 \/ b % 2 = 1 THEN 1 ELSE 0) + 2 * BitOr(a \div 2, b \div 2)

(***************************************************************************)
(* sht31.py: module constants                                              *)
(***************************************************************************)
SINGLE_MODE == << <<44, 6, 13, 16>>,        \* 0x2C 0x06 0x0D 0x10
                  <<36, 0, 11, 22>> >>      \* 0x24 0x00 0x0B 0x16
PERIODIC_MODE == << <<32, 47, 36, 50>>,     \* 0x20 0x2F 0x24 0x32
                    <<33, 45, 38, 48>>,     \* 0x21 0x2D 0x26 0x30
                    <<34, 43, 32, 54>>,     \* 0x22 0x2B 0x20 0x36
                    <<35, 41, 34, 52>>,     \* 0x23 0x29 0x22 0x34
                    <<39, 42, 33, 55>> >>   \* 0x27 0x2A 0x21 0x37
PERIODIC_FETCH == <<224, 0>>                \* 0xE0 0x00
PERIODIC_BREAK == <<48, 147>>               \* 0x30 0x93
TIMING == <<1, 4, 6, 15>>                   \* (0.001, 0.004, 0.006, 0.015) s
REPEATABILITY_HIGH == 3
PERIODIC_MPS1 == 1

(***************************************************************************)
(* tsl2591.py: module constants                                            *)
(***************************************************************************)
COMMAND_NORMAL == 160       \* 0xA0
COMMAND_CLEAR_INT == 230    \* 0xE6
REGISTER_ENABLE == 0
REGISTER_CONTROL == 1
REGISTER_PERSIST == 12      \* 0x0C
REGISTER_ID == 18           \* 0x12
REGISTER_STATUS == 19       \* 0x13
REGISTER_C0DATAL == 20      \* 0x14
REGISTER_C1DATAL == 22      \* 0x16
ENABLE_POWEROFF == 208      \* 0xD0
ENABLE_POWERON == 1
ENABLE_AEN == 2
ENABLE_AIEN == 16           \* 0x10
ENABLE_SAI == 64            \* 0x40
ENABLE_NPIEN == 128         \* 0x80
STATUS_AVALID == 1
CONTROL_AGAIN_LOW == 0
CONTROL_AGAIN_MED == 16
CONTROL_AGAIN_HIGH == 32
CONTROL_AGAIN_MAX == 48
CONTROL_ATIME_100MS == 0
CONTROL_ATIME_200MS == 1
CONTROL_ATIME_300MS == 2
CONTROL_ATIME_400MS == 3
CONTROL_ATIME_500MS == 4
CONTROL_ATIME_600MS == 5
MAX_COUNT_100MS == 36863
MAX_COUNT == 65535
DEVICE_ID == 80             \* 0x50, the value is_tsl2591 compares with
\* the control register of a device that was never written: medium gain and
\* 200 ms, the device defaults the gain and time docstrings give
CONTROL_RESET == BitOr(CONTROL_AGAIN_MED, CONTROL_ATIME_200MS)

(***************************************************************************)
(* sht31.py: static helpers                                                *)
(***************************************************************************)
merge_blocks(b1, b2) == b1 * 256 + b2        \* b1 << 8 | b2, bytes in 0..255

\* Physical values are Python floats; the model keeps them exactly, as the
\* numerator of a fraction over 65535.
to_relative(humd) == 100 * humd              \* 100.0 * (humd / 65535.0)
to_fahrenheit(temp) == 315 * temp - 49 * 65535   \* -49.0 + 315.0 * (temp / 65535.0)
to_celsius(temp) == 175 * temp - 45 * 65535      \* -45.0 + 175.0 * (temp / 65535.0)

\* int(x) for a float x whose exact value is the quotient `quot` (already
\* truncated toward zero); exact: the division left no remainder.  Floating
\* point may have rounded an exact integer to just below (above, if negative)
\* it, and int() truncates toward zero; every other quotient is further from
\* an integer than any rounding error.  The set of values int() may return.
PyInt(quot, exact) ==
    IF exact /\ quot > 0 THEN {quot - 1, quot}
    ELSE IF exact /\ quot < 0 THEN {quot, quot + 1}
    ELSE {quot}
\* num / den truncated toward zero, den > 0
TruncDiv(num, den) == IF num >= 0 THEN num \div den ELSE -((-num) \div den)

\* a variant of from_fahrenheit without the 49 degree offset (sensitivity of
\* C13)
from_fahrenheit_no_offset(temp) == PyInt(TruncDiv(temp, 5 * 63), temp % (5 * 63) = 0)

\* int((temp + 49.0) * 13107.0 / 63.0), temp a numerator over 65535:
\* (temp / 65535 + 49) * 13107 / 63 = (temp + 49 * 65535) / (5 * 63),
\* for 65535 = 5 * 13107
from_fahrenheit(temp) ==
    LET num == temp + 49 * 65535
    IN  PyInt(TruncDiv(num, 5 * 63), num % (5 * 63) = 0)
\* int((temp + 45.0) * 13107.0 / 35.0)
from_celsius(temp) ==
    LET num == temp + 45 * 65535
    IN  PyInt(TruncDiv(num, 5 * 35), num % (5 * 35) = 0)
\* int(humd / 100.0 * 65565.0), humd a non-negative numerator over 65535:
\* humd * 65565 / (65535 * 100) = humd * 4371 / 436900, for 65565 = 15 * 4371
\* and 65535 = 15 * 4369; the product is taken in two parts to stay in range
from_relative(humd) ==
    LET whole == humd \div 436900
        part  == (humd % 436900) * 4371
    IN  PyInt(whole * 4371 + part \div 436900, part % 436900 = 0)

\* Python ints are unbounded and crc8 masks its register only on return: the
\* register is kept as its base-256 digits, least significant first.
\* crc << 1
RECURSIVE shift_left(_, _)
shift_left(digits, carry) ==
    IF digits = <<>> THEN (IF carry = 0 THEN <<>> ELSE <<carry>>)
    ELSE <<(2 * Head(digits) + carry) % 256>>
         \o shift_left(Tail(digits), (2 * Head(digits) + carry) \div 256)
\* crc ^ b for a byte b
xor_byte(digits, b) == <<BitXor(Head(digits), b)>> \o Tail(digits)

\* the inner loop of crc8: `n` more shift steps on the register `crc`
RECURSIVE crc8_shift(_, _)
crc8_shift(crc, n) ==
    IF n = 0 THEN crc
    ELSE LET next == IF BitAnd(Head(crc), 128) # 0
                     THEN xor_byte(shift_left(crc, 0), 49)
                     ELSE shift_left(crc, 0)
         \* (the test is always true: it has TLC evaluate `next` here, not
         \* as a chain of suspended steps at the end)
         IN  IF next # <<>> THEN crc8_shift(next, n - 1) ELSE next

\* the outer loop of crc8 from byte `index` (1-based) on; no mask inside the loop
RECURSIVE crc8_from(_, _, _)
crc8_from(blocks, index, crc) ==
    IF index > Len(blocks) THEN crc
    ELSE crc8_from(blocks, index + 1, crc8_shift(xor_byte(crc, blocks[index]), 8))

\* variants of crc8: one that returns the register unmasked (sensitivity of
\* C15), one that starts from 0x00 (sensitivity of C16)
crc8_unmasked(blocks) ==
    LET crc == crc8_from(blocks, 1, <<255>>)
    IN  Head(crc) + (IF Len(crc) > 1 THEN 256 * crc[2] ELSE 0)
crc8_from_zero(blocks) == BitAnd(Head(crc8_from(blocks, 1, <<0>>)), 255)

\* return crc & 0xFF
crc8(blocks) == BitAnd(Head(crc8_from(blocks, 1, <<255>>)), 255)

\* a variant of _process_data that drops both values when either checksum
\* fails (sensitivity of C9)
_process_data_all_or_nothing(data) ==
    IF crc8(SubSeq(data, 1, 2)) = data[3] /\ crc8(SubSeq(data, 4, 5)) = data[6]
    THEN <<Some(to_fahrenheit(merge_blocks(data[1], data[2]))),
           Some(to_relative(merge_blocks(data[4], data[5])))>>
    ELSE <<None, None>>

\* data[0:2] and data[3:5] are Python slices
_process_data(data) ==
    LET temp == IF crc8(SubSeq(data, 1, 2)) = data[3]
                THEN Some(to_fahrenheit(merge_blocks(data[1], data[2])))
                ELSE None
        humd == IF crc8(SubSeq(data, 4, 5)) = data[6]
                THEN Some(to_relative(merge_blocks(data[4], data[5])))
                ELSE None
    IN  <<temp, humd>>

(***************************************************************************)
(* The bus and the clock                                                   *)
(***************************************************************************)
\* one transaction of smbus, issued at time t
\* (ok = FALSE: the transport raised OSError and data was not transferred)
BusWrite(cmd, vals, t) ==
    [kind |-> "write", cmd |-> cmd, data |-> vals, t |-> t, ok |-> TRUE]
BusRead(cmd, block, t) ==
    [kind |-> "read", cmd |-> cmd, data |-> block, t |-> t, ok |-> TRUE]
Failed(x) == [x EXCEPT !.ok = FALSE]
\* write_word_data: the word goes out as two data bytes, low byte first
BusWriteWord(cmd, word, t) == BusWrite(cmd, <<word % 256, word \div 256>>, t)
\* a transaction that raised the OSError built from `args`
FailedWith(x, args) == [kind |-> x.kind, cmd |-> x.cmd, data |-> x.data, t |-> x.t,
                        ok |-> FALSE, err |-> args]

\* str(e) of an OSError e built from `args`: OSError(121) prints as "121",
\* OSError(121, "Remote I/O error") as "[Errno 121] Remote I/O error"
OSError_str(args) ==
    IF Len(args) = 1 THEN ToString(args[1])
    ELSE "[Errno " \o ToString(args[1]) \o "] " \o args[2]
\* the OSErrors a failing bus write raises: errno EREMOTEIO (121) or EIO (5),
\* built with the errno alone or with the errno and its message, as the
\* smbus binding in use does
TransportErrors == { <<121>>, <<121, "Remote I/O error">>,
                     <<5>>, <<5, "Input/output error">> }

\* time.sleep(d) entered at time t returns at t + d (a longer sleep only
\* delays what follows it)
SleepEnd(t, d) == t + d

\* what the SHT31 may answer to a 6-byte read: two groups of two data bytes
\* and a checksum byte, the checksum right or wrong
TempGroups == { <<190, 239>> \o <<crc8(<<190, 239>>)>>,       \* checksum right
                <<190, 239>> \o <<crc8(<<128, 0>>)>> }         \* checksum wrong
HumdGroups == { <<128, 0>> \o <<crc8(<<128, 0>>)>>,
                <<128, 0>> \o <<crc8(<<190, 239>>)>> }
Responses == {g \o h : g \in TempGroups, h \in HumdGroups}

\* the record of a call: its name, arguments, the exception it raised ("" for
\* none), what it returned and the bus transactions it issued; idle: the
\* caller has let time pass since
Call(op, arg, raised, ret, bus) ==
    [op |-> op, arg |-> arg, raised |-> raised, ret |-> ret, bus |-> bus,
     idle |-> FALSE]

(***************************************************************************)
(* SHT31                                                                   *)
(***************************************************************************)
\* the alert limits the model follows, each a (write command, read command)
\* pair: ALERT_HIGH_WSET / ALERT_HIGH_RSET and ALERT_LOW_WCLEAR / ALERT_LOW_RCLEAR
AlertLimits == {"high_alert_set", "low_alert_clear"}
ALERT_HIGH_RSET == <<225, 31>>      \* 0xE1 0x1F
ALERT_LOW_RCLEAR == <<225, 2>>      \* 0xE1 0x02
ALERT_HIGH_WSET == <<97, 29>>       \* 0x61 0x1D
ALERT_LOW_WCLEAR == <<97, 0>>       \* 0x61 0x00

\* the guards of the setters
repeatability_valid(val) == val >= 1 /\ val <= 3
periodic_interval_valid(val) == val >= 0 /\ val <= 4

\* a variant of the wait table without its 2 s row (sensitivity of C6)
periodic_wait_of_no_half_mps(val) ==
    IF val = 4 THEN 100
    ELSE IF val = 3 THEN 250
    ELSE IF val = 2 THEN 500
    ELSE 1000

\* the wait table of the periodic_interval setter, in ms
periodic_wait_of(val) ==
    IF val = 4 THEN 100
    ELSE IF val = 3 THEN 250
    ELSE IF val = 2 THEN 500
    ELSE IF val = 1 THEN 1000
    ELSE 2000

\* the periodic_mode getter: False while the attribute is unset
periodic_mode == IF __periodic_mode = None THEN FALSE ELSE Val(__periodic_mode)

\* no driver object yet; the devices are as they power up
Setters == {"gain", "time"}

NoObject ==
    /\ obj = "none"
    /\ now = 0
    /\ calls = 0
    /\ repeatability = 0
    /\ clock_stretch = 0
    /\ periodic_interval = 0
    /\ __periodic_mode = None
    /\ _periodic_next = None
    /\ _periodic_wait = None
    /\ _aien = FALSE /\ _npien = FALSE /\ _sai = FALSE
    /\ _again = 0 /\ _atime = 0 /\ _wait = 0
    /\ _next = None
    /\ saturated = FALSE
    /\ pc = "idle"
    /\ reg_enable = 0
    /\ reg_control = CONTROL_RESET
    /\ reg_status = 0
    /\ reg_persist = 0
    /\ reg_reserved = 0
    /\ alert_regs = [a \in AlertLimits |-> None]
    /\ rmw = [s \in Setters |-> [pc |-> "start", val |-> 0, cur |-> 0]]

Init ==
    /\ NoObject
    /\ last = Call("none", <<>>, "", <<>>, <<>>)

\* SHT31.__init__: no bus traffic; the three setters run with valid values
SHT31_init ==
    /\ obj = "none"
    /\ obj' = "SHT31"
    /\ _periodic_next' = None
    /\ repeatability' = REPEATABILITY_HIGH
    /\ clock_stretch' = PyIntOfBool(FALSE)
    /\ _periodic_wait' = Some(periodic_wait_of(PERIODIC_MPS1))
    /\ periodic_interval' = PERIODIC_MPS1
    /\ last' = Call("SHT31.__init__", <<>>, "", <<>>, <<>>)
    /\ UNCHANGED <<now, calls, __periodic_mode, alert_regs, tslVars>>

CanCall == calls < MaxCalls
Called == calls' = calls + 1

repeatability_setter(val) ==
    /\ obj = "SHT31" /\ CanCall /\ Called
    /\ repeatability' = IF repeatability_valid(val) THEN val ELSE repeatability
    /\ last' = Call("repeatability", <<val>>, "", <<>>, <<>>)
    /\ UNCHANGED <<obj, now, clock_stretch, periodic_interval,
                   __periodic_mode, _periodic_next, _periodic_wait, alert_regs, tslVars>>

\* self.__clock_stretch = int(val); `val` here is int(val) already
clock_stretch_setter(val) ==
    /\ obj = "SHT31" /\ CanCall /\ Called
    /\ clock_stretch' = val
    /\ last' = Call("clock_stretch", <<val>>, "", <<>>, <<>>)
    /\ UNCHANGED <<obj, now, repeatability, periodic_interval,
                   __periodic_mode, _periodic_next, _periodic_wait, alert_regs, tslVars>>

periodic_interval_setter(val) ==
    /\ obj = "SHT31" /\ CanCall /\ Called
    /\ IF periodic_interval_valid(val)
       THEN /\ _periodic_wait' = Some(periodic_wait_of(val))
            /\ periodic_interval' = val
       ELSE UNCHANGED <<_periodic_wait, periodic_interval>>
    /\ last' = Call("periodic_interval", <<val>>, "", <<>>, <<>>)
    /\ UNCHANGED <<obj, now, repeatability, clock_stretch,
                   __periodic_mode, _periodic_next, alert_regs, tslVars>>

\* SHT31._write_block(cmd, vals) entered at time t: the transaction, then
\* time.sleep(TIMING[0]); the time at which it returns
_write_block_end(t) == SleepEnd(t, TIMING[1])

\* a variant of the setter that assigns the attribute before the write
\* (sensitivity of C4)
periodic_mode_after_eager(val, fail) == Some(val)

\* self.__periodic_mode after the periodic_mode setter: the assignment is the
\* setter's last statement, behind the write that may raise
periodic_mode_after(val, fail) == IF fail THEN __periodic_mode ELSE Some(val)

\* the periodic_mode setter; `fail`: the bus write raises OSError
periodic_mode_setter(val, fail) ==
    LET cmd  == IF val THEN Idx(Idx(PERIODIC_MODE, periodic_interval), 0)
                ELSE Idx(PERIODIC_BREAK, 0)
        lsb  == IF val THEN Idx(Idx(PERIODIC_MODE, periodic_interval), repeatability)
                ELSE Idx(PERIODIC_BREAK, 1)
        t1   == _write_block_end(now)
        w    == BusWrite(cmd, <<lsb>>, now)
    IN  /\ obj = "SHT31" /\ CanCall /\ Called
        /\ IF fail
           THEN /\ last' = Call("periodic_mode", <<val>>, "OSError", <<>>, <<Failed(w)>>)
                /\ __periodic_mode' = periodic_mode_after(val, fail)
                /\ UNCHANGED <<now, _periodic_next>>
           ELSE /\ t1 <= MaxTime
                /\ now' = t1
                /\ _periodic_next' =
                      IF val THEN Some(t1 + Val(_periodic_wait) + Idx(TIMING, repeatability))
                      ELSE _periodic_next
                /\ __periodic_mode' = periodic_mode_after(val, fail)
                /\ last' = Call("periodic_mode", <<val>>, "", <<>>, <<w>>)
        /\ UNCHANGED <<obj, repeatability, clock_stretch, periodic_interval,
                       _periodic_wait, alert_regs, tslVars>>

\* variants of the wait of periodic_fetch: none at all (sensitivity of C5),
\* and one that ends 1 ms early (sensitivity of C7)
periodic_fetch_no_wait(curr) == curr
periodic_fetch_start_short(curr) ==
    IF Val(_periodic_next) - 1 > curr
    THEN SleepEnd(curr, Val(_periodic_next) - 1 - curr)
    ELSE curr

\* the time at which periodic_fetch leaves its wait, entered at `curr`
periodic_fetch_start(curr) ==
    IF Val(_periodic_next) > curr
    THEN SleepEnd(curr, Val(_periodic_next) - curr)
    ELSE curr

\* periodic_fetch; `fail`: 0 no transport failure, 1 the write of the fetch
\* command raises OSError, 2 the read of the block does
periodic_fetch(block, fail) ==
    /\ obj = "SHT31" /\ CanCall /\ Called
    /\ IF _periodic_next = None
       THEN \* None > curr raises TypeError
            /\ fail = 0 /\ block = <<>>
            /\ last' = Call("periodic_fetch", <<>>, "TypeError", <<>>, <<>>)
            /\ UNCHANGED <<now, _periodic_next>>
       ELSE LET t1 == periodic_fetch_start(now)
                t2 == _write_block_end(t1)
                w  == BusWrite(Idx(PERIODIC_FETCH, 0), <<Idx(PERIODIC_FETCH, 1)>>, t1)
            IN  IF fail = 1
                THEN /\ block = <<>>
                     /\ t1 <= MaxTime
                     /\ now' = t1
                     /\ last' = Call("periodic_fetch", <<>>, "OSError", <<>>,
                                     <<Failed(w)>>)
                     /\ UNCHANGED _periodic_next
                ELSE IF ~InRange(SINGLE_MODE, clock_stretch)
                THEN \* SINGLE_MODE[self.clock_stretch] raises IndexError
                     /\ fail = 0 /\ block = <<>>
                     /\ t2 <= MaxTime
                     /\ now' = t2
                     /\ last' = Call("periodic_fetch", <<>>, "IndexError", <<>>, <<w>>)
                     /\ UNCHANGED _periodic_next
                ELSE IF fail = 2
                THEN /\ block = <<>>
                     /\ t2 <= MaxTime
                     /\ now' = t2
                     /\ last' = Call("periodic_fetch", <<>>, "OSError", <<>>,
                                     <<w, Failed(BusRead(Idx(Idx(SINGLE_MODE, clock_stretch), 0),
                                                         <<>>, t2))>>)
                     /\ UNCHANGED _periodic_next
                ELSE /\ block \in Responses
                     /\ t2 <= MaxTime
                     /\ now' = t2
                     /\ _periodic_next' =
                            Some(t2 + Val(_periodic_wait) + Idx(TIMING, repeatability))
                     /\ last' = Call("periodic_fetch", <<>>, "", _process_data(block),
                                     <<w, BusRead(Idx(Idx(SINGLE_MODE, clock_stretch), 0),
                                                  block, t2)>>)
    /\ UNCHANGED <<obj, repeatability, clock_stretch, periodic_interval,
                   __periodic_mode, _periodic_wait, alert_regs, tslVars>>

\* single_shot; `fail` as in periodic_fetch
single_shot(block, fail) ==
    /\ obj = "SHT31" /\ CanCall /\ Called
    /\ IF ~InRange(SINGLE_MODE, clock_stretch)
       THEN /\ fail = 0 /\ block = <<>>
            /\ last' = Call("single_shot", <<>>, "IndexError", <<>>, <<>>)
            /\ UNCHANGED now
       ELSE LET row == Idx(SINGLE_MODE, clock_stretch)
                w   == BusWrite(Idx(row, 0), <<Idx(row, repeatability)>>, now)
                t1  == _write_block_end(now)
                t2  == SleepEnd(t1, Idx(TIMING, repeatability))
            IN  IF fail = 1
                THEN /\ block = <<>>
                     /\ last' = Call("single_shot", <<>>, "OSError", <<>>, <<Failed(w)>>)
                     /\ UNCHANGED now
                ELSE IF fail = 2
                THEN /\ block = <<>>
                     /\ t2 <= MaxTime
                     /\ now' = t2
                     /\ last' = Call("single_shot", <<>>, "OSError", <<>>,
                                     <<w, Failed(BusRead(Idx(row, 0), <<>>, t2))>>)
                ELSE /\ block \in Responses
                     /\ t2 <= MaxTime
                     /\ now' = t2
                     /\ last' = Call("single_shot", <<>>, "", _process_data(block),
                                     <<w, BusRead(Idx(row, 0), block, t2)>>)
    /\ UNCHANGED <<obj, repeatability, clock_stretch, periodic_interval,
                   __periodic_mode, _periodic_next, _periodic_wait, alert_regs, tslVars>>

\* the commands of an alert limit
alert_write_cmd(limit) ==
    IF limit = "high_alert_set" THEN ALERT_HIGH_WSET ELSE ALERT_LOW_WCLEAR
alert_read_cmd(limit) ==
    IF limit = "high_alert_set" THEN ALERT_HIGH_RSET ELSE ALERT_LOW_RCLEAR

\* a variant of the packing that keeps 9 humidity bits and 7 temperature bits
\* (sensitivity of C12)
alert_word_9_7(humd, temp) == BitOr(BitAnd(humd, 65408), BitAnd(temp \div 512, 127))

\* data = (humd & 0xFE00) | ((temp >> 7) & 0x01FF)
alert_word(humd, temp) == BitOr(BitAnd(humd, 65024), BitAnd(temp \div 128, 511))

\* the (temperature, humidity) pairs the callers write, as numerators over
\* 65535: (77 F, 50 %), (150 F, 80 %), (-49 F, 0 %), (266 F, 100 %)
AlertArgs == { <<77 * 65535, 50 * 65535>>, <<150 * 65535, 80 * 65535>>,
               <<-49 * 65535, 0>>, <<266 * 65535, 100 * 65535>> }

\* _write_alert_data through the setter of `limit`; fail: the write raises
_write_alert_data(limit, val, fail) ==
    /\ obj = "SHT31" /\ CanCall /\ Called
    /\ \E humd \in from_relative(Idx(val, 1)), temp \in from_fahrenheit(Idx(val, 0)) :
          LET data == alert_word(humd, temp)
              b1   == data \div 256             \* data >> 8
              b2   == BitAnd(data, 255)
              crc  == crc8(<<b1, b2>>)
              cmd  == alert_write_cmd(limit)
              w    == BusWrite(Idx(cmd, 0), <<Idx(cmd, 1), b1, b2, crc>>, now)
          IN  IF fail
              THEN /\ last' = Call("_write_alert_data", <<limit, val>>, "OSError", <<>>,
                                   <<Failed(w)>>)
                   /\ UNCHANGED <<now, alert_regs>>
              ELSE /\ _write_block_end(now) <= MaxTime
                   /\ now' = _write_block_end(now)
                   /\ alert_regs' = [alert_regs EXCEPT ![limit] = Some(<<b1, b2, crc>>)]
                   /\ last' = Call("_write_alert_data", <<limit, val>>, "", <<>>, <<w>>)
    /\ UNCHANGED <<obj, repeatability, clock_stretch, periodic_interval,
                   __periodic_mode, _periodic_next, _periodic_wait, tslVars>>

\* what the device answers to the read of a limit: the bytes written to it,
\* as they are or with the checksum byte damaged on the way; before any
\* write, the limit it powers up with (a sample)
AlertPowerUp == { <<205, 51, crc8(<<205, 51>>)>> }
AlertAnswers(limit) ==
    IF alert_regs[limit] = None THEN AlertPowerUp
    ELSE { Val(alert_regs[limit]),
           [Val(alert_regs[limit]) EXCEPT ![3] = BitXor(@, 255)] }

\* what _read_alert_data returns for the three bytes it read
alert_decode(block) ==
    IF crc8(<<block[1], block[2]>>) # block[3] THEN <<None, None>>
    ELSE LET data == merge_blocks(block[1], block[2])
             humd == BitAnd(data, 65024)               \* data & 0xFE00
             temp == BitAnd(data, 511) * 128           \* (data & 0x01FF) << 7
         IN  <<Some(to_fahrenheit(temp)), Some(to_relative(humd))>>

\* _read_alert_data through the getter of `limit`; fail: 0 none, 1 the write
\* of the command raises, 2 the read does
_read_alert_data(limit, block, fail) ==
    LET cmd == alert_read_cmd(limit)
        w   == BusWrite(Idx(cmd, 0), <<Idx(cmd, 1)>>, now)
        t1  == _write_block_end(now)
        r   == BusRead(Idx(cmd, 0), block, t1)
    IN  /\ obj = "SHT31" /\ CanCall /\ Called
        /\ IF fail = 1
           THEN /\ block = <<>>
                /\ last' = Call("_read_alert_data", <<limit>>, "OSError", <<>>, <<Failed(w)>>)
                /\ UNCHANGED now
           ELSE IF fail = 2
           THEN /\ block = <<>>
                /\ t1 <= MaxTime
                /\ now' = t1
                /\ last' = Call("_read_alert_data", <<limit>>, "OSError", <<>>,
                                <<w, Failed(r)>>)
           ELSE /\ block \in AlertAnswers(limit)
                /\ t1 <= MaxTime
                /\ now' = t1
                /\ last' = Call("_read_alert_data", <<limit>>, "", alert_decode(block),
                                <<w, r>>)
        /\ UNCHANGED <<obj, repeatability, clock_stretch, periodic_interval,
                       __periodic_mode, _periodic_next, _periodic_wait, alert_regs, tslVars>>


(***************************************************************************)
(* TSL2591                                                                 *)
(***************************************************************************)
\* what the callers pass and what the device answers
GainArgs == {0, 16, 48, 64}
TimeArgs == {-1, 0, 1, 5, 6}
DeviceIds == {DEVICE_ID, 0}
CtorFlags == {<<FALSE, FALSE, FALSE>>, <<TRUE, TRUE, TRUE>>}
ChannelSamples == {MAX_COUNT_100MS, MAX_COUNT_100MS + 1}
RmwFails == 0..2

\* the register address _read_byte, _read_word and _write_byte put on the bus
Reg(reg) == BitOr(COMMAND_NORMAL, reg)

\* the device: a write of the enable register. AVALID says that an
\* integration cycle has completed since AEN was asserted, so it falls when
\* the write asserts AEN anew or takes it (or the power) away.
Running(enable) == BitAnd(enable, ENABLE_POWERON + ENABLE_AEN) = ENABLE_POWERON + ENABLE_AEN
status_after_enable(old, new, status) ==
    IF Running(old) /\ Running(new) THEN status
    ELSE status - BitAnd(status, STATUS_AVALID)

\* the guards and the tables of the gain and time setters
gain_valid(val) ==
    val \in {CONTROL_AGAIN_LOW, CONTROL_AGAIN_MED, CONTROL_AGAIN_HIGH, CONTROL_AGAIN_MAX}
again_of(val) ==
    IF val = CONTROL_AGAIN_LOW THEN 1
    ELSE IF val = CONTROL_AGAIN_MED THEN 25
    ELSE IF val = CONTROL_AGAIN_HIGH THEN 428
    ELSE 9876
\* a variant of the guard of the time setter that lets 6 through
\* (sensitivity of C2)
time_valid_through_six(val) == val >= 0 /\ val <= 6
time_valid(val) == val >= 0 /\ val <= 5
atime_of(val) ==
    IF val = CONTROL_ATIME_100MS THEN 100
    ELSE IF val = CONTROL_ATIME_200MS THEN 200
    ELSE IF val = CONTROL_ATIME_300MS THEN 300
    ELSE IF val = CONTROL_ATIME_400MS THEN 400
    ELSE IF val = CONTROL_ATIME_500MS THEN 500
    ELSE 600
\* self._wait = self._atime / 100 is in seconds; the model's clock is in ms
wait_of(atime) == (atime * 1000) \div 100

\* a variant of the gain write-back that drops what it read (sensitivity of
\* C17)
control_with_gain_only(reg, val) == val

\* the value the setters write back: cur | val, cur the register under its mask
control_with_gain(reg, val) == BitOr(BitAnd(reg, 207), val)     \* & 0xCF
control_with_time(reg, val) == BitOr(BitAnd(reg, 248), val)     \* & 0xF8

\* the read-modify-write of a setter at time t on the control register `reg`,
\* `new` the value to write; fail: 0 none, 1 the read raises, 2 the write raises
\* the transactions it issues
rmw_bus(reg, new, fail, t) ==
    LET r == BusRead(Reg(REGISTER_CONTROL), <<reg>>, t)
        w == BusWrite(Reg(REGISTER_CONTROL), <<new>>, t)
    IN  IF fail = 1 THEN <<Failed([r EXCEPT !.data = <<>>])>>
        ELSE IF fail = 2 THEN <<r, Failed(w)>>
        ELSE <<r, w>>
\* the register after it
rmw_reg(reg, new, fail) == IF fail = 0 THEN new ELSE reg

\* a variant of is_tsl2591 that does not compare the ID (sensitivity of C10)
is_tsl2591_any_id(id, raised) == ~raised

\* is_tsl2591 as __init__ tests it: True when the ID register reads 0x50;
\* False when the read raised, None when it read another value (both falsy)
is_tsl2591(id, raised) == ~raised /\ id = DEVICE_ID

\* TSL2591.__init__; `id`: what the device answers to the read of the ID
\* register; fail: 0 none, 1 the ID read raises, 2/3 the read/write of the
\* time setter, 4/5 the read/write of the gain setter
TSL2591_init(interrupt, np_interrupt, sleep_after, id, fail) ==
    LET rid  == IF fail = 1 THEN Failed(BusRead(Reg(REGISTER_ID), <<>>, now))
                ELSE BusRead(Reg(REGISTER_ID), <<id>>, now)
        is   == is_tsl2591(id, fail = 1)
        tf   == IF fail \in {2, 3} THEN fail - 1 ELSE 0
        new1 == control_with_time(reg_control, CONTROL_ATIME_100MS)
        reg1 == rmw_reg(reg_control, new1, tf)
        gf   == IF fail \in {4, 5} THEN fail - 3 ELSE 0
        new2 == control_with_gain(reg1, CONTROL_AGAIN_LOW)
        reg2 == rmw_reg(reg1, new2, gf)
    IN  /\ obj = "none"
        /\ IF ~is
           THEN /\ fail \in {0, 1}
                /\ fail = 1 => id = DEVICE_ID
                /\ obj' = "failed"
                /\ last' = Call("TSL2591.__init__", <<interrupt, np_interrupt, sleep_after>>,
                                "RuntimeError", <<>>, <<rid>>)
                /\ UNCHANGED <<_aien, _npien, _sai, _again, _atime, _wait, _next,
                               saturated, reg_control>>
           ELSE IF tf # 0
           THEN /\ obj' = "failed"
                /\ last' = Call("TSL2591.__init__", <<interrupt, np_interrupt, sleep_after>>,
                                "OSError", <<>>,
                                <<rid>> \o rmw_bus(reg_control, new1, tf, now))
                /\ UNCHANGED <<_aien, _npien, _sai, _again, _atime, _wait, _next,
                               saturated, reg_control>>
           ELSE IF gf # 0
           THEN /\ obj' = "failed"
                /\ reg_control' = reg2
                /\ last' = Call("TSL2591.__init__", <<interrupt, np_interrupt, sleep_after>>,
                                "OSError", <<>>,
                                <<rid>> \o rmw_bus(reg_control, new1, 0, now)
                                        \o rmw_bus(reg1, new2, gf, now))
                /\ UNCHANGED <<_aien, _npien, _sai, _again, _atime, _wait, _next,
                               saturated>>
           ELSE /\ obj' = "TSL2591"
                /\ _aien' = interrupt /\ _npien' = np_interrupt /\ _sai' = sleep_after
                /\ _atime' = atime_of(CONTROL_ATIME_100MS)
                /\ _wait' = wait_of(atime_of(CONTROL_ATIME_100MS))
                /\ _again' = again_of(CONTROL_AGAIN_LOW)
                /\ reg_control' = reg2
                /\ saturated' = FALSE
                /\ _next' = Some(now + wait_of(atime_of(CONTROL_ATIME_100MS)))
                /\ last' = Call("TSL2591.__init__", <<interrupt, np_interrupt, sleep_after>>,
                                "", <<>>,
                                <<rid>> \o rmw_bus(reg_control, new1, 0, now)
                                        \o rmw_bus(reg1, new2, 0, now))
        /\ UNCHANGED <<now, calls, pc, reg_enable, reg_status, reg_persist, reg_reserved, rmw, shtVars>>

TslCall == obj = "TSL2591" /\ pc = "idle" /\ CanCall /\ Called

\* the gain setter
gain_setter(val, fail) ==
    LET new == control_with_gain(reg_control, val)
    IN  /\ TslCall
        /\ IF gain_valid(val)
           THEN /\ _again' = again_of(val)
                /\ reg_control' = rmw_reg(reg_control, new, fail)
                /\ last' = Call("gain", <<val>>, IF fail = 0 THEN "" ELSE "OSError", <<>>,
                                rmw_bus(reg_control, new, fail, now))
           ELSE /\ fail = 0
                /\ last' = Call("gain", <<val>>, "", <<>>, <<>>)
                /\ UNCHANGED <<_again, reg_control>>
        /\ UNCHANGED <<obj, now, _aien, _npien, _sai, _atime, _wait, _next, saturated,
                       pc, reg_enable, reg_status, reg_persist, reg_reserved, rmw, shtVars>>

\* the time setter
time_setter(val, fail) ==
    LET new == control_with_time(reg_control, val)
    IN  /\ TslCall
        /\ IF time_valid(val)
           THEN /\ _atime' = atime_of(val)
                /\ _wait' = wait_of(atime_of(val))
                /\ reg_control' = rmw_reg(reg_control, new, fail)
                /\ last' = Call("time", <<val>>, IF fail = 0 THEN "" ELSE "OSError", <<>>,
                                rmw_bus(reg_control, new, fail, now))
           ELSE /\ fail = 0
                /\ last' = Call("time", <<val>>, "", <<>>, <<>>)
                /\ UNCHANGED <<_atime, _wait, reg_control>>
        /\ UNCHANGED <<obj, now, _aien, _npien, _sai, _again, _next, saturated,
                       pc, reg_enable, reg_status, reg_persist, reg_reserved, rmw, shtVars>>

\* a variant of raw_data without its wait (sensitivity of C8)
raw_data_no_wait(curr) == curr

\* the time at which raw_data leaves its wait, entered at `curr`
raw_data_start(curr) ==
    IF Val(_next) > curr THEN SleepEnd(curr, Val(_next) - curr) ELSE curr

\* a variant of the threshold that is the full count at every integration
\* time (sensitivity of C11)
maxc_always_full(time) == MAX_COUNT

\* the saturation threshold of raw_data; `time`: what the time getter read
maxc_of(time) == IF time = 0 THEN MAX_COUNT_100MS ELSE MAX_COUNT

\* raw_data; ch0, ch1: the channel words the device answers; fail: 0 none,
\* 1 the read of channel 0 raises, 2 that of channel 1, 3 that of the control
\* register (the time getter)
raw_data(ch0, ch1, fail) ==
    LET t1   == raw_data_start(now)
        r0   == BusRead(Reg(REGISTER_C0DATAL), <<ch0>>, t1)
        r1   == BusRead(Reg(REGISTER_C1DATAL), <<ch1>>, t1)
        rc   == BusRead(Reg(REGISTER_CONTROL), <<reg_control>>, t1)
        time == BitAnd(reg_control, 7)
        maxc == maxc_of(time)
    IN  /\ TslCall
        /\ t1 <= MaxTime
        /\ now' = t1
        /\ _next' = Some(t1 + _wait)
        /\ IF fail = 0
           THEN /\ ch0 \in ChannelSamples /\ ch1 \in ChannelSamples
                /\ saturated' = (ch0 > maxc \/ ch1 > maxc)
                /\ last' = Call("raw_data", <<>>, "", <<ch0, ch1>>, <<r0, r1, rc>>)
           ELSE /\ fail = 1 => ch0 = 0
                /\ fail \in {1, 2} => ch1 = 0
                /\ fail \in {2, 3} => ch0 \in ChannelSamples
                /\ fail = 3 => ch1 \in ChannelSamples
                /\ UNCHANGED saturated
                /\ last' = Call("raw_data", <<>>, "OSError", <<>>,
                                IF fail = 1 THEN <<Failed([r0 EXCEPT !.data = <<>>])>>
                                ELSE IF fail = 2
                                THEN <<r0, Failed([r1 EXCEPT !.data = <<>>])>>
                                ELSE <<r0, r1, Failed([rc EXCEPT !.data = <<>>])>>)
        /\ UNCHANGED <<obj, _aien, _npien, _sai, _again, _atime, _wait,
                       pc, reg_enable, reg_control, reg_status, reg_persist, reg_reserved, rmw, shtVars>>

\* the values on() and clear_interrupt() write to the enable register, in order
on_writes ==
    LET enable == (IF _aien THEN ENABLE_AIEN ELSE 0)
                  + (IF _npien THEN ENABLE_NPIEN ELSE 0)
                  + (IF _sai THEN ENABLE_SAI ELSE 0)
    IN  << BitOr(ENABLE_POWERON, ENABLE_AEN),
           BitOr(BitOr(ENABLE_POWERON, ENABLE_AEN), enable),
           3,
           19 >>

\* the enable and status registers after the first n of a sequence of writes
enable_after(ws, n, enable) ==
    IF n = 0 THEN enable ELSE ws[n]
RECURSIVE status_after(_, _, _, _)
status_after(ws, n, enable, status) ==
    IF n = 0 THEN status
    ELSE status_after_enable(enable_after(ws, n - 1, enable), ws[n],
                             status_after(ws, n - 1, enable, status))

\* on(), up to its polling loop; fail: 0 none, 1..4 that write of the enable
\* register raises, 5 the read of COMMAND_CLEAR_INT raises
on_begin(fail) ==
    LET ws   == on_writes
        n    == IF fail = 0 \/ fail = 5 THEN 4 ELSE fail - 1    \* writes done
        wlog == [i \in 1..4 |-> BusWrite(Reg(REGISTER_ENABLE), <<ws[i]>>, now)]
        rclr == BusRead(Reg(COMMAND_CLEAR_INT), <<0>>, now)
    IN  /\ TslCall
        /\ reg_enable' = enable_after(ws, n, reg_enable)
        /\ reg_status' = status_after(ws, n, reg_enable, reg_status)
        /\ IF fail = 0
           THEN /\ pc' = "on_poll"
                /\ last' = Call("on", <<>>, "", <<>>, wlog \o <<rclr>>)
           ELSE /\ pc' = "idle"
                /\ last' = Call("on", <<>>, "OSError", <<>>,
                                IF fail = 5
                                THEN wlog \o <<Failed([rclr EXCEPT !.data = <<>>])>>
                                ELSE SubSeq(wlog, 1, n) \o <<Failed(wlog[fail])>>)
        /\ UNCHANGED <<obj, now, _aien, _npien, _sai, _again, _atime, _wait, _next,
                       saturated, reg_control, reg_persist, reg_reserved, rmw, shtVars>>

\* The gain and the time setter called from two threads on one handle, each
\* thread making one call. A thread is at "start" before its call, at "write"
\* between `cur = self._read_byte(REGISTER_CONTROL) & mask` and
\* `self._write_byte(REGISTER_CONTROL, cur | val)`, and then at "returned",
\* "raised" (OSError) or "rejected" (val not valid: the setter does nothing).
rmw_valid(s, val) == IF s = "gain" THEN gain_valid(val) ELSE time_valid(val)
rmw_mask(s) == IF s = "gain" THEN 207 ELSE 248          \* 0xCF, 0xF8
rmw_args(s) == IF s = "gain" THEN GainArgs ELSE TimeArgs

\* a variant of the write-back that masks the register as it is at the write
\* (sensitivity of C24)
write_back_fresh(s, cur, val, reg) == BitOr(BitAnd(reg, rmw_mask(s)), val)

\* the value a setter writes: cur | val, cur as read earlier; the register as
\* it is at the write (reg) has no part in it
write_back(s, cur, val, reg) == BitOr(cur, val)

\* the setter up to and including its read of the control register
rmw_read(s, val, fail) ==
    LET r == BusRead(Reg(REGISTER_CONTROL), <<reg_control>>, now)
    IN  /\ obj = "TSL2591" /\ pc = "idle" /\ CanCall /\ Called
        /\ rmw[s].pc = "start"
        /\ IF rmw_valid(s, val)
           THEN /\ IF s = "gain"
                   THEN /\ _again' = again_of(val)
                        /\ UNCHANGED <<_atime, _wait>>
                   ELSE /\ _atime' = atime_of(val)
                        /\ _wait' = wait_of(atime_of(val))
                        /\ UNCHANGED _again
                /\ IF fail
                   THEN /\ rmw' = [rmw EXCEPT ![s] = [pc |-> "raised", val |-> val, cur |-> 0]]
                        /\ last' = Call(s, <<val>>, "OSError", <<>>,
                                        <<Failed([r EXCEPT !.data = <<>>])>>)
                   ELSE /\ rmw' = [rmw EXCEPT ![s] = [pc |-> "write", val |-> val,
                                                      cur |-> BitAnd(reg_control, rmw_mask(s))]]
                        /\ last' = Call(s, <<val>>, "", <<>>, <<r>>)
           ELSE /\ ~fail
                /\ rmw' = [rmw EXCEPT ![s] = [pc |-> "rejected", val |-> val, cur |-> 0]]
                /\ last' = Call(s, <<val>>, "", <<>>, <<>>)
                /\ UNCHANGED <<_again, _atime, _wait>>
        /\ UNCHANGED <<obj, now, _aien, _npien, _sai, _next, saturated, pc,
                       reg_enable, reg_control, reg_status, reg_persist, reg_reserved,
                       shtVars>>

\* its write of the control register
rmw_write(s, fail) ==
    LET new == write_back(s, rmw[s].cur, rmw[s].val, reg_control)
        w   == BusWrite(Reg(REGISTER_CONTROL), <<new>>, now)
    IN  /\ obj = "TSL2591" /\ pc = "idle"
        /\ rmw[s].pc = "write"
        /\ IF fail
           THEN /\ rmw' = [rmw EXCEPT ![s].pc = "raised"]
                /\ last' = Call(s, <<rmw[s].val>>, "OSError", <<>>, <<Failed(w)>>)
                /\ UNCHANGED reg_control
           ELSE /\ rmw' = [rmw EXCEPT ![s].pc = "returned"]
                /\ reg_control' = new
                /\ last' = Call(s, <<rmw[s].val>>, "", <<>>, <<w>>)
        /\ UNCHANGED <<obj, now, calls, _aien, _npien, _sai, _again, _atime, _wait, _next,
                       saturated, pc, reg_enable, reg_status, reg_persist, reg_reserved,
                       shtVars>>

\* a variant of is_valid that does not look at the status (sensitivity of C22)
is_valid_any_status(status) == status >= 0

\* is_valid: bool(status & STATUS_AVALID), status as read from the register
is_valid(status) == BitAnd(status, STATUS_AVALID) # 0

\* one round of `while not self.is_valid: time.sleep(self._wait)`, and the
\* assignment of _next that follows the loop; fail: the status read raises
on_poll(fail) ==
    LET r == BusRead(Reg(REGISTER_STATUS), <<reg_status>>, now)
    IN  /\ obj = "TSL2591" /\ pc = "on_poll"
        /\ IF fail
           THEN /\ pc' = "idle"
                /\ last' = Call("on", <<>>, "OSError", <<>>,
                                <<Failed([r EXCEPT !.data = <<>>])>>)
                /\ UNCHANGED <<now, _next>>
           ELSE IF is_valid(reg_status)
           THEN /\ pc' = "idle"
                /\ _next' = Some(now + _wait)
                /\ last' = Call("on", <<>>, "", <<>>, <<r>>)
                /\ UNCHANGED now
           ELSE /\ SleepEnd(now, _wait) <= MaxTime
                /\ now' = SleepEnd(now, _wait)
                /\ pc' = "on_poll"
                /\ last' = Call("on", <<>>, "", <<>>, <<r>>)
                /\ UNCHANGED _next
        /\ UNCHANGED <<obj, calls, _aien, _npien, _sai, _again, _atime, _wait,
                       saturated, reg_enable, reg_control, reg_status, reg_persist, reg_reserved, rmw, shtVars>>

\* off()
off(fail) ==
    LET w == BusWrite(Reg(REGISTER_ENABLE), <<ENABLE_POWEROFF>>, now)
    IN  /\ TslCall
        /\ IF fail
           THEN /\ last' = Call("off", <<>>, "OSError", <<>>, <<Failed(w)>>)
                /\ UNCHANGED <<reg_enable, reg_status>>
           ELSE /\ reg_enable' = ENABLE_POWEROFF
                /\ reg_status' = status_after_enable(reg_enable, ENABLE_POWEROFF, reg_status)
                /\ last' = Call("off", <<>>, "", <<>>, <<w>>)
        /\ UNCHANGED <<obj, now, _aien, _npien, _sai, _again, _atime, _wait, _next,
                       saturated, pc, reg_control, reg_persist, reg_reserved, rmw, shtVars>>

\* the persist setter: _write_word(REGISTER_PERSIST, val), val as passed.
\* The device takes the two data bytes of a word write into the addressed
\* register and the one after it (as the word reads of raw_data rely on).
PersistArgs == {0, 5, 15, 261}
persist_setter(val, fail) ==
    LET w == BusWriteWord(Reg(REGISTER_PERSIST), val, now)
    IN  /\ TslCall
        /\ IF fail
           THEN /\ last' = Call("persist", <<val>>, "OSError", <<>>, <<Failed(w)>>)
                /\ UNCHANGED <<reg_persist, reg_reserved>>
           ELSE /\ reg_persist' = w.data[1]
                /\ reg_reserved' = w.data[2]
                /\ last' = Call("persist", <<val>>, "", <<>>, <<w>>)
        /\ UNCHANGED <<obj, now, _aien, _npien, _sai, _again, _atime, _wait, _next,
                       saturated, pc, reg_enable, reg_control, reg_status, rmw, shtVars>>

\* system_reset: `if str(code) == '121': pass`, else the OSError is raised again
reset_error_expected(args) == OSError_str(args) = "121"

\* system_reset; err: None, or the arguments of the OSError the write raises;
\* reset: the device took the reset (with an error: it may or may not have)
system_reset(err, reset) ==
    LET w == BusWrite(Reg(REGISTER_CONTROL), <<128>>, now)      \* 0x80
    IN  /\ TslCall
        /\ err = None => reset
        /\ IF reset
           THEN /\ reg_control' = CONTROL_RESET
                /\ reg_enable' = 0
                /\ reg_status' = 0
                /\ reg_persist' = 0
                /\ reg_reserved' = 0
           ELSE UNCHANGED <<reg_control, reg_enable, reg_status, reg_persist, reg_reserved>>
        /\ last' = IF err = None
                   THEN Call("system_reset", <<>>, "", <<>>, <<w>>)
                   ELSE Call("system_reset", <<>>,
                             IF reset_error_expected(Val(err)) THEN "" ELSE "OSError",
                             <<>>, <<FailedWith(w, Val(err))>>)
        /\ UNCHANGED <<obj, now, _aien, _npien, _sai, _again, _atime, _wait, _next,
                       saturated, pc, rmw, shtVars>>

\* the device completes an integration cycle
DevCycle ==
    /\ obj = "TSL2591"
    /\ Running(reg_enable)
    /\ BitAnd(reg_status, STATUS_AVALID) = 0
    /\ reg_status' = reg_status + STATUS_AVALID
    /\ last' = Call("DevCycle", <<>>, "", <<>>, <<>>)
    /\ UNCHANGED <<obj, now, calls, _aien, _npien, _sai, _again, _atime, _wait, _next,
                   saturated, pc, reg_enable, reg_control, reg_persist, reg_reserved, rmw, shtVars>>

\* the caller lets time pass between two calls
IdleSteps == {1000}
Idle(d) ==
    /\ obj \in {"SHT31", "TSL2591"}
    /\ pc = "idle"
    /\ ~last.idle
    /\ now + d <= MaxTime
    /\ now' = now + d
    /\ last' = [last EXCEPT !.idle = TRUE]
    /\ UNCHANGED <<obj, calls, shtVars, tslVars>>

\* arguments the callers pass to the setters
RepeatabilityArgs == 0..4
PeriodicIntervalArgs == -1..5
ClockStretchArgs == {1, 2}
FailPoints == 0..2

NextSHT31 ==
    \/ SHT31_init
    \/ \E val \in RepeatabilityArgs : repeatability_setter(val)
    \/ \E val \in BOOLEAN : clock_stretch_setter(PyIntOfBool(val))
    \/ \E val \in ClockStretchArgs : clock_stretch_setter(val)
    \/ \E val \in PeriodicIntervalArgs : periodic_interval_setter(val)
    \/ \E val \in BOOLEAN, fail \in BOOLEAN : periodic_mode_setter(val, fail)
    \/ \E block \in Responses \cup {<<>>}, fail \in FailPoints :
          periodic_fetch(block, fail)
    \/ \E block \in Responses \cup {<<>>}, fail \in FailPoints :
          single_shot(block, fail)

NextTSL2591 ==
    \/ \E flags \in CtorFlags, id \in DeviceIds, fail \in 0..5 :
          TSL2591_init(flags[1], flags[2], flags[3], id, fail)
    \/ \E val \in GainArgs, fail \in RmwFails : gain_setter(val, fail)
    \/ \E val \in TimeArgs, fail \in RmwFails : time_setter(val, fail)
    \/ \E ch0, ch1 \in ChannelSamples \cup {0}, fail \in 0..3 :
          raw_data(ch0, ch1, fail)
    \/ \E fail \in 0..5 : on_begin(fail)
    \/ \E fail \in BOOLEAN : on_poll(fail)
    \/ \E fail \in BOOLEAN : off(fail)
    \/ DevCycle

Next ==
    \/ NextSHT31
    \/ NextTSL2591
    \/ \E d \in IdleSteps : Idle(d)

Spec == Init /\ [][Next]_vars

\* a caller that works on the alert limits of an SHT31
NextAlert ==
    \/ SHT31_init
    \/ \E limit \in AlertLimits, val \in AlertArgs, fail \in BOOLEAN :
          _write_alert_data(limit, val, fail)
    \/ \E limit \in AlertLimits, fail \in FailPoints :
          \E block \in AlertAnswers(limit) \cup {<<>>} :
              _read_alert_data(limit, block, fail)
    \/ \E d \in IdleSteps : Idle(d)

SpecAlert == Init /\ [][NextAlert]_vars

\* a caller that configures and resets a TSL2591
NextRegisters ==
    \/ \E flags \in CtorFlags, id \in DeviceIds, fail \in 0..5 :
          TSL2591_init(flags[1], flags[2], flags[3], id, fail)
    \/ \E val \in GainArgs, fail \in RmwFails : gain_setter(val, fail)
    \/ \E val \in TimeArgs, fail \in RmwFails : time_setter(val, fail)
    \/ \E val \in PersistArgs, fail \in BOOLEAN : persist_setter(val, fail)
    \/ \E err \in {None} \cup {Some(e) : e \in TransportErrors}, reset \in BOOLEAN :
          system_reset(err, reset)

SpecRegisters == Init /\ [][NextRegisters]_vars

\* two threads on one handle, one in the gain setter and one in the time setter
NextThreads ==
    \/ \E flags \in CtorFlags, id \in DeviceIds, fail \in 0..5 :
          TSL2591_init(flags[1], flags[2], flags[3], id, fail)
    \/ \E s \in Setters : \E val \in rmw_args(s), fail \in BOOLEAN : rmw_read(s, val, fail)
    \/ \E s \in Setters, fail \in BOOLEAN : rmw_write(s, fail)
    \/ \E d \in IdleSteps : Idle(d)

SpecThreads == Init /\ [][NextThreads]_vars

\* a caller that turns a TSL2591 on and off, and the device
NextOn ==
    \/ \E flags \in CtorFlags, id \in DeviceIds, fail \in 0..5 :
          TSL2591_init(flags[1], flags[2], flags[3], id, fail)
    \/ \E val \in TimeArgs, fail \in RmwFails : time_setter(val, fail)
    \/ \E fail \in 0..5 : on_begin(fail)
    \/ \E fail \in BOOLEAN : on_poll(fail)
    \/ \E fail \in BOOLEAN : off(fail)
    \/ DevCycle
    \/ \E d \in IdleSteps : Idle(d)

\* The thread inside on() keeps running its loop (a round whose status read
\* does not raise is taken whenever it stays possible), and the device, once
\* powered with its ADC enabled, completes its integration cycle.
SpecOn ==
    /\ Init /\ [][NextOn]_vars
    /\ WF_vars(on_poll(FALSE))
    /\ WF_vars(DevCycle)

\* The static conversions of SHT31, applied to every raw 16-bit value: a raw
\* value is at hand, a to_* conversion is applied to it, and the from_*
\* conversion to the result.
RawInputs == 0..65535
StaticCall(op, arg, ret) ==
    /\ last' = Call(op, arg, "", ret, <<>>)
    /\ UNCHANGED <<obj, now, calls, shtVars, tslVars>>
InitConv ==
    /\ NoObject
    /\ last \in {Call("raw", <<>>, "", <<r>>, <<>>) : r \in RawInputs}
to_fahrenheit_call ==
    /\ last.op = "raw"
    /\ StaticCall("to_fahrenheit", last.ret, <<to_fahrenheit(last.ret[1])>>)
from_fahrenheit_call ==
    /\ last.op = "to_fahrenheit"
    /\ \E raw \in from_fahrenheit(last.ret[1]) :
          StaticCall("from_fahrenheit", last.ret, <<raw>>)
to_celsius_call ==
    /\ last.op = "raw"
    /\ StaticCall("to_celsius", last.ret, <<to_celsius(last.ret[1])>>)
from_celsius_call ==
    /\ last.op = "to_celsius"
    /\ \E raw \in from_celsius(last.ret[1]) :
          StaticCall("from_celsius", last.ret, <<raw>>)
to_relative_call ==
    /\ last.op = "raw"
    /\ StaticCall("to_relative", last.ret, <<to_relative(last.ret[1])>>)
from_relative_call ==
    /\ last.op = "to_relative"
    /\ \E raw \in from_relative(last.ret[1]) :
          StaticCall("from_relative", last.ret, <<raw>>)
NextConv ==
    \/ to_fahrenheit_call
    \/ from_fahrenheit_call
    \/ to_celsius_call
    \/ from_celsius_call
    \/ to_relative_call
    \/ from_relative_call

SpecConv == InitConv /\ [][NextConv]_vars

\* SHT31.crc8 applied to byte sequences: every sequence of one or two bytes,
\* and the sequences of up to MaxBlocks bytes over a sample of byte values
MaxBlocks == 3
ByteSamples == {0, 1, 128, 255}
BlockInputs ==
    [1..1 -> 0..255] \cup [1..2 -> 0..255]
    \cup UNION {[1..n -> ByteSamples] : n \in 0..MaxBlocks}
InitCrc ==
    /\ NoObject
    /\ last \in {Call("blocks", <<>>, "", <<b>>, <<>>) : b \in BlockInputs}
crc8_call ==
    /\ last.op = "blocks"
    /\ StaticCall("crc8", last.ret, <<crc8(last.ret[1])>>)
NextCrc == crc8_call

SpecCrc == InitCrc /\ [][NextCrc]_vars

(***************************************************************************)
(* Properties                                                              *)
(***************************************************************************)
\* the step is a call of `op` (FiredOn), the state is the one a call of `op`
\* left (Just)
Fired(op) == last'.op = op /\ ~last'.idle
Just(op) == last.op = op /\ ~last.idle

\* the transactions of a call that name command or register `cmd`
Issued(call, cmd) == {i \in 1..Len(call.bus) : call.bus[i].cmd = cmd}
Writes(call) == {i \in 1..Len(call.bus) : call.bus[i].kind = "write"}

\* a <= b for two values of a next-allowed-read timestamp
NotBefore(a, b) == a = None \/ (b # None /\ Val(b) >= Val(a))

\* the tables of the specification
MeasurementWait(interval) ==
    CASE interval = 0 -> 2000 [] interval = 1 -> 1000 [] interval = 2 -> 500
      [] interval = 3 -> 250  [] interval = 4 -> 100
Settle(rep) == CASE rep = 1 -> 4 [] rep = 2 -> 6 [] rep = 3 -> 15

\* CRC-8 as the specification words it: the register is masked to 8 bits
RECURSIVE RefCrcBits(_, _)
RefCrcBits(crc, n) ==
    IF n = 0 THEN crc
    ELSE RefCrcBits(IF crc >= 128 THEN BitXor((crc * 2) % 256, 49)
                    ELSE (crc * 2) % 256, n - 1)
RECURSIVE RefCrc(_, _)
RefCrc(bytes, crc) ==
    IF bytes = <<>> THEN crc
    ELSE RefCrc(Tail(bytes), RefCrcBits(BitXor(crc, Head(bytes)), 8))

\* C1: every configuration field of an SHT31 handle holds an enumerated
\* value: repeatability in {1,2,3}, clock_stretch in {0,1}, periodic_interval
\* in {0,..,4}.
C1_ConfigEnumerated ==
    obj = "SHT31" =>
        /\ repeatability \in {1, 2, 3}
        /\ clock_stretch \in {0, 1}
        /\ periodic_interval \in {0, 1, 2, 3, 4}

\* C2: an out-of-range write to repeatability, periodic_interval, gain or
\* time changes nothing (no field, no derived wait, no cached multiplier, no
\* device register) and issues no bus transaction.
OutOfRange(op, val) ==
    \/ op = "repeatability" /\ val \notin {1, 2, 3}
    \/ op = "periodic_interval" /\ val \notin {0, 1, 2, 3, 4}
    \/ op = "gain" /\ val \notin {0, 16, 32, 48}
    \/ op = "time" /\ val \notin {0, 1, 2, 3, 4, 5}
C2_RejectedWriteNoMutation ==
    [][ (/\ \E op \in {"repeatability", "periodic_interval", "gain", "time"} : Fired(op)
         /\ OutOfRange(last'.op, last'.arg[1]))
        => /\ UNCHANGED <<obj, now, shtVars, tslVars>>
           /\ last'.raised = ""
           /\ last'.bus = <<>> ]_vars
C2_Witness ==
    /\ Just("time") /\ last.arg = <<6>>
    /\ _atime = 200 /\ _wait = 2000 /\ BitAnd(reg_control, 7) = 1

\* C3: periodic_fetch called while periodic_enabled is false issues no fetch
\* command and returns no measurement.
C3_FetchOnlyWhenEnabled ==
    [][ (Fired("periodic_fetch") /\ ~periodic_mode)
        => /\ Issued(last', Idx(PERIODIC_FETCH, 0)) = {}
           /\ last'.ret = <<>> ]_vars

\* C4: when the transport write of the periodic_mode setter fails, the error
\* propagates and periodic_enabled and next_allowed_read are what they were.
C4_SetPeriodicTransactional ==
    [][ (Fired("periodic_mode") /\ \E i \in 1..Len(last'.bus) : ~last'.bus[i].ok)
        => /\ last'.raised = "OSError"
           /\ UNCHANGED <<__periodic_mode, _periodic_next>> ]_vars
C4_Witness ==
    /\ Just("periodic_mode") /\ last.arg = <<FALSE>> /\ last.raised = "OSError"
    /\ periodic_mode /\ _periodic_next # None

\* C5 as claimed: no step lets next_allowed_read regress, on either driver.
C5_NextNeverRegresses ==
    [][ /\ NotBefore(_periodic_next, _periodic_next')
        /\ NotBefore(_next, _next') ]_vars
\* C5 as amended: periodic_fetch and raw_data never let next_allowed_read
\* regress, and every other call but set_periodic(true) and on() leaves it
\* as it is; those two set it to the current time plus the current latency.
C5_NextNeverRegressesButRestart ==
    [][ /\ ~(Fired("periodic_mode") /\ last'.arg = <<TRUE>>)
           => NotBefore(_periodic_next, _periodic_next')
        /\ ~Fired("on") => NotBefore(_next, _next')
        /\ (Fired("periodic_mode") /\ last'.arg = <<TRUE>> /\ last'.raised = "")
           => _periodic_next' = Some(now' + Val(_periodic_wait) + Idx(TIMING, repeatability))
        /\ (Fired("on") /\ _next' # _next) => _next' = Some(now' + _wait) ]_vars
C5_Witness ==
    /\ Just("periodic_fetch") /\ last.raised = ""
    /\ periodic_interval = 4
    /\ Val(_periodic_next) > 200

\* C6 as claimed: after set_periodic(true) and after every periodic_fetch,
\* next_allowed_read = time the command was issued + measurement_wait(interval)
\* + settle(repeatability).
Scheduled ==
    \/ Just("periodic_mode") /\ last.arg = <<TRUE>> /\ last.raised = ""
    \/ Just("periodic_fetch") /\ last.raised = ""
C6_NextIsIssuePlusLatency ==
    Scheduled =>
        _periodic_next = Some(last.bus[1].t + MeasurementWait(periodic_interval)
                                            + Settle(repeatability))
\* C6 as amended: next_allowed_read = T + measurement_wait + settle, T the
\* clock read once the command write (and, in periodic_fetch, the read of
\* the response) has returned, at least 1 ms after the command was issued.
C6_NextIsReturnPlusLatency ==
    Scheduled =>
        /\ _periodic_next = Some(now + MeasurementWait(periodic_interval)
                                     + Settle(repeatability))
        /\ now >= last.bus[1].t + 1
C6_Witness ==
    /\ Just("periodic_mode") /\ last.arg = <<TRUE>> /\ last.raised = ""
    /\ periodic_interval = 1 /\ repeatability = 3
    /\ _periodic_next = Some(last.bus[1].t + 1 + 1000 + 15)

\* C7: while periodic mode is enabled, periodic_fetch puts nothing on the bus
\* before next_allowed_read: it writes the fetch command at or after that
\* time and reads the six bytes after the write.
C7_FetchNotBeforeNext ==
    [][ (Fired("periodic_fetch") /\ periodic_mode)
        => /\ Len(last'.bus) >= 1
           /\ last'.bus[1].kind = "write"
           /\ last'.bus[1].cmd = 224 /\ last'.bus[1].data = <<0>>
           /\ \A i \in 1..Len(last'.bus) : last'.bus[i].t >= Val(_periodic_next)
           /\ now' >= Val(_periodic_next)
           /\ last'.raised = ""
              => /\ Len(last'.bus) = 2
                 /\ last'.bus[2].kind = "read" /\ Len(last'.bus[2].data) = 6
                 /\ last'.bus[2].t >= last'.bus[1].t ]_vars
C7_Witness ==
    /\ Just("periodic_fetch") /\ last.raised = "" /\ periodic_mode
    /\ calls = 2
    /\ last.bus[1].t = 1016

\* C8: of two consecutive raw_data calls with no other call in between, the
\* second neither reads a register nor returns before wait_duration has
\* passed since the read of the first.
C8_SecondReadWaits ==
    [][ (last.op = "raw_data" /\ Fired("raw_data"))
        => /\ \A i \in 1..Len(last'.bus) : last'.bus[i].t >= last.bus[1].t + _wait
           /\ now' >= last.bus[1].t + _wait ]_vars
C8_Witness ==
    /\ Just("raw_data") /\ last.raised = ""
    /\ Running(reg_enable)
    /\ calls = 3
    /\ now = 2000

\* C9: the temperature of a response is absent exactly when the checksum of
\* bytes 0-1 differs from byte 2, the humidity exactly when the checksum of
\* bytes 3-4 differs from byte 5, each whatever the other, and no error is
\* raised.
C9_ChecksumIsolation ==
    \A op \in {"single_shot", "periodic_fetch"} :
        (Just(op) /\ Len(last.bus) = 2 /\ last.bus[2].ok) =>
            LET d == last.bus[2].data
            IN  /\ last.raised = ""
                /\ Len(last.ret) = 2
                /\ (last.ret[1] = None) <=> (RefCrc(<<d[1], d[2]>>, 255) # d[3])
                /\ (last.ret[2] = None) <=> (RefCrc(<<d[4], d[5]>>, 255) # d[6])
C9_Witness ==
    /\ Just("single_shot") /\ last.raised = ""
    /\ last.ret[1] # None /\ last.ret[2] = None

\* C10 as claimed: construction succeeds iff the read of the ID register
\* succeeds and returns 0x50; when it does not, construction fails and no
\* register write has been issued.
IdRead == last.bus[1].ok /\ last.bus[1].data = <<80>>
C10_ConstructIffId ==
    Just("TSL2591.__init__") =>
        /\ (last.raised = "") <=> IdRead
        /\ ~IdRead => (last.raised # "" /\ Writes(last) = {})
\* C10 as amended: construction succeeds iff the read of the ID register
\* succeeds and returns 0x50 and no transaction of the time and gain setters
\* that follow fails; when the ID read fails or returns another value,
\* construction fails and no register write has been issued.
C10_ConstructIffIdAndTransport ==
    Just("TSL2591.__init__") =>
        /\ Len(last.bus) >= 1 /\ last.bus[1].kind = "read" /\ last.bus[1].cmd = 178
        /\ (last.raised = "") <=> (IdRead /\ \A i \in 1..Len(last.bus) : last.bus[i].ok)
        /\ (last.raised = "") <=> (obj = "TSL2591")
        /\ ~IdRead => (last.raised = "RuntimeError" /\ Len(last.bus) = 1)
C10_Witness ==
    /\ Just("TSL2591.__init__") /\ last.raised = "RuntimeError"
    /\ last.bus[1].ok /\ last.bus[1].data = <<0>>

\* C11: after a raw_data call that returned, saturated is true exactly when a
\* channel count exceeds the threshold: 36863 when the device integrates for
\* 100 ms, 65535 otherwise; 36864 saturates at 100 ms and not at 200 ms.
Threshold == IF reg_control % 8 = 0 THEN 36863 ELSE 65535
C11_SaturatedIffOverThreshold ==
    (Just("raw_data") /\ last.raised = "") =>
        /\ saturated <=> (last.ret[1] > Threshold \/ last.ret[2] > Threshold)
        /\ (36864 \in {last.ret[1], last.ret[2]} /\ reg_control % 8 = 0) => saturated
        /\ (last.ret[1] <= 36864 /\ last.ret[2] <= 36864 /\ reg_control % 8 = 1)
           => ~saturated
C11_Witness ==
    /\ Just("raw_data") /\ last.raised = ""
    /\ last.ret = <<36864, 36863>>
    /\ reg_control % 8 = 1 /\ _atime = 200
    /\ ~saturated

\* the 16-bit word of an alert-limit write, and the raw values it was packed from
AlertWord(call) == call.bus[1].data[2] * 256 + call.bus[1].data[3]
RawHumidity(call) == from_relative(call.arg[2][2])
RawTemperature(call) == from_fahrenheit(call.arg[2][1])
AlertWritten == Just("_write_alert_data") /\ last.raised = ""
AlertRead == Just("_read_alert_data") /\ last.raised = "" /\ last.ret # <<None, None>>

\* C12 as claimed: the word is the 9 high bits of the raw humidity over the 7
\* high bits of the raw temperature, on write and on read.
C12_Word9Humidity7Temperature ==
    /\ AlertWritten =>
          \E humd \in RawHumidity(last), temp \in RawTemperature(last) :
              AlertWord(last) = ((humd \div 128) % 512) * 128 + ((temp \div 512) % 128)
    /\ AlertRead =>
          LET d    == last.bus[2].data
              word == d[1] * 256 + d[2]
          IN  last.ret = << Some(to_fahrenheit((word % 128) * 512)),
                            Some(to_relative((word \div 128) * 128)) >>
\* C12 as amended: the word is the 7 high bits of the raw humidity (bits
\* 15..9) over the 9 high bits of the raw temperature (bits 8..0), on write
\* and on read.
C12_Word7Humidity9Temperature ==
    /\ AlertWritten =>
          \E humd \in RawHumidity(last), temp \in RawTemperature(last) :
              AlertWord(last) = ((humd \div 512) % 128) * 512 + ((temp \div 128) % 512)
    /\ AlertRead =>
          LET d    == last.bus[2].data
              word == d[1] * 256 + d[2]
          IN  last.ret = << Some(to_fahrenheit((word % 512) * 128)),
                            Some(to_relative((word \div 512) * 512)) >>
C12_Witness ==
    /\ AlertRead
    /\ alert_regs["high_alert_set"] # None
    /\ last.arg = <<"high_alert_set">>
    /\ last.bus[2].data = Val(alert_regs["high_alert_set"])
    /\ (last.bus[2].data[1] * 256 + last.bus[2].data[2]) \div 512 = 64    \* 50 %

\* a step that applies `inverse` to what `forward` returned for a raw value
RoundTrip(forward, inverse) == last.op = forward /\ Fired(inverse)
Within1(a, b) == a - b <= 1 /\ b - a <= 1

\* C13: for every raw r in 0..65535, from_fahrenheit(to_fahrenheit(r)) and
\* from_celsius(to_celsius(r)) are within 1 of r.
C13_TemperatureRoundTrip ==
    [][ /\ RoundTrip("to_fahrenheit", "from_fahrenheit")
           => Within1(last'.ret[1], last.arg[1])
        /\ RoundTrip("to_celsius", "from_celsius")
           => Within1(last'.ret[1], last.arg[1]) ]_vars
C13_Witness ==
    /\ Just("from_fahrenheit")
    /\ last.arg = <<315 * 65527 - 49 * 65535>>      \* to_fahrenheit(65527)
    /\ last.ret = <<65526>>

\* C14: for every raw r in 0..65535, from_relative(to_relative(r)) is within
\* 1 of r.
C14_HumidityRoundTrip ==
    [][ RoundTrip("to_relative", "from_relative")
        => Within1(last'.ret[1], last.arg[1]) ]_vars

\* the reference CRC-8 of C15: the register starts at 0xFF; each byte is
\* XORed in, eight steps shift it left (XORing 0x31 in when bit 7 was set),
\* and it is masked to 8 bits after the byte
RECURSIVE Crc8ReferenceSteps(_, _)
Crc8ReferenceSteps(reg, n) ==
    IF n = 0 THEN reg
    ELSE Crc8ReferenceSteps(IF (reg \div 128) % 2 = 1 THEN BitXor(2 * reg, 49)
                            ELSE 2 * reg, n - 1)
RECURSIVE Crc8Reference(_, _)
Crc8Reference(bytes, reg) ==
    IF bytes = <<>> THEN reg
    ELSE Crc8Reference(Tail(bytes),
                       Crc8ReferenceSteps(BitXor(reg, Head(bytes)), 8) % 256)

\* C15: crc8 returns what the reference CRC-8 returns, a value in 0..255, for
\* every byte sequence.
C15_Crc8IsReference ==
    Just("crc8") =>
        /\ last.ret[1] = Crc8Reference(last.arg[1], 255)
        /\ last.ret[1] \in 0..255
C15_Witness ==
    /\ Just("crc8")
    /\ last.arg = << <<1, 128, 255>> >>
    /\ last.ret = <<130>>

\* C16 as claimed: crc8([0x80, 0x00]) = 0x31.
C16_Crc8Of8000Is31 ==
    (Just("crc8") /\ last.arg = << <<128, 0>> >>) => last.ret = <<49>>
\* C16 as amended: crc8([0x80, 0x00]) = 0xA2 (and crc8([0xBE, 0xEF]) = 0x92).
C16_Crc8Of8000IsA2 ==
    /\ (Just("crc8") /\ last.arg = << <<128, 0>> >>) => last.ret = <<162>>
    /\ (Just("crc8") /\ last.arg = << <<190, 239>> >>) => last.ret = <<146>>
C16_Witness ==
    /\ Just("crc8")
    /\ last.arg = << <<128, 0>> >>
    /\ last.ret = <<162>>

\* the gain field (mask 0x30) and the time field (mask 0x07) of a control
\* register value
GainBits(reg) == ((reg \div 16) % 4) * 16
TimeBits(reg) == reg % 8
WroteControl(op) == Fired(op) /\ last'.raised = "" /\ last'.bus # <<>>

\* C17: a gain write that succeeds puts its value in the bits under 0x30 of
\* the control register and keeps every other bit; a time write that
\* succeeds puts its value in the bits under 0x07 and keeps every other bit.
C17_SettersWriteOwnBitsOnly ==
    [][ /\ WroteControl("gain")
           => /\ GainBits(reg_control') = last'.arg[1]
              /\ reg_control' - GainBits(reg_control') = reg_control - GainBits(reg_control)
        /\ WroteControl("time")
           => /\ TimeBits(reg_control') = last'.arg[1]
              /\ reg_control' - TimeBits(reg_control') = reg_control - TimeBits(reg_control)
      ]_vars
C17_Witness ==
    /\ Just("gain") /\ last.arg = <<48>> /\ last.raised = ""
    /\ reg_control = 48 + 5

\* the OSError the write of system_reset raised, if it raised one
ResetFailure == {i \in 1..Len(last.bus) : ~last.bus[i].ok}

\* C18: in system_reset a transport failure with error code 121 is swallowed
\* and the call returns; one with any other code propagates.
C18_Reset121Swallowed ==
    Just("system_reset") =>
        \A i \in ResetFailure :
            /\ last.bus[i].err[1] = 121 => last.raised = ""
            /\ last.bus[i].err[1] # 121 => last.raised = "OSError"

\* C19: the persist setter writes its value as one data byte to the persist
\* register and changes no other device register.
C19_PersistSingleByte ==
    [][ (Fired("persist") /\ last'.raised = "")
        => /\ Len(last'.bus) = 1
           /\ last'.bus[1].kind = "write"
           /\ last'.bus[1].cmd = 172                \* 0xA0 | 0x0C
           /\ last'.bus[1].data = last'.arg
           /\ reg_persist' = last'.arg[1]
           /\ UNCHANGED <<reg_enable, reg_control, reg_status, reg_reserved>> ]_vars


\* the last completed call changed the integration time with success
TimeChanged == last.op = "time" /\ last.raised = "" /\ last.bus # <<>>
\* the time (ms) of that change: its write of the control register
TimeChangedAt == last.bus[Len(last.bus)].t

\* C20: a successful change of the integration time leaves wait_duration at
\* time_ms/100 seconds (ten times time_ms, in ms) and the next raw_data does
\* not read the channels earlier than that wait after the change.
C20_ReadWaitsNewTime ==
    [][ (TimeChanged /\ Fired("raw_data"))
        => /\ _wait = 10 * 100 * (last.arg[1] + 1)
           /\ last'.bus[1].t >= TimeChangedAt + _wait ]_vars

\* on() has returned: its polling loop saw the valid bit and left
OnReturned == Just("on") /\ last.raised = "" /\ pc = "idle"
\* the interrupt flags the constructor was given, as bits of the enable register
ConfiguredFlags ==
    (IF _aien THEN 16 ELSE 0) + (IF _npien THEN 128 ELSE 0) + (IF _sai THEN 64 ELSE 0)

\* C21: when on() returns, the enable register holds power-on, ADC-enable and
\* exactly the interrupt flags configured at construction.
C21_EnableHoldsConfiguredFlags ==
    OnReturned => reg_enable = 1 + 2 + ConfiguredFlags

\* on() ended by raising
OnRaised == Just("on") /\ last.raised = "OSError" /\ pc = "idle"
\* the call made by a step is a status read that saw the valid bit
SawValid ==
    /\ Len(last'.bus) = 1
    /\ last'.bus[1].kind = "read" /\ last'.bus[1].ok
    /\ last'.bus[1].cmd = 179                       \* 0xA0 | 0x13
    /\ last'.bus[1].data[1] % 2 = 1
    /\ reg_status % 2 = 1

\* C22: on() neither returns nor records next_allowed_read before a status
\* read has seen the valid bit (so it never returns while the device does not
\* report valid), and with a device that comes to report valid every on()
\* that has entered its loop returns, unless the transport fails.
C22_OnReturnsIffValid ==
    /\ [][ (Fired("on") /\ (_next' # _next \/ (pc' = "idle" /\ last'.raised = "")))
           => (pc = "on_poll" /\ SawValid) ]_vars
    /\ (pc = "on_poll") ~> (OnReturned \/ OnRaised)
C22_Witness ==
    /\ OnReturned
    /\ now >= _wait
    /\ last.bus[1].t = now
    /\ _next = <<now + _wait>>

\* the gain multiplier and the integration time (ms) that the control
\* register stands for
RegisterGain ==
    LET bits == (reg_control \div 16) % 4
    IN  IF bits = 0 THEN 1 ELSE IF bits = 1 THEN 25 ELSE IF bits = 2 THEN 428 ELSE 9876
RegisterTime == 100 * ((reg_control % 8) + 1)

\* C23: in every state of a light-sensor handle the cached gain multiplier
\* and integration time are those of the gain and time bits of the control
\* register, also after a setter whose transport failed and after
\* system_reset.
C23_CacheMatchesRegister ==
    obj = "TSL2591" => (_again = RegisterGain /\ _atime = RegisterTime)

\* a step in which the thread in setter s writes the control register
WriteStep(s) == rmw[s].pc = "write" /\ rmw'[s].pc = "returned"
\* the field of setter s in a value of the control register
Field(s, reg) == IF s = "gain" THEN 16 * ((reg \div 16) % 4) ELSE reg % 8
\* both threads have returned from a setter that wrote
BothReturned == \A s \in Setters : rmw[s].pc = "returned"

\* C24: the setters are read-modify-write sequences that are not atomic: the
\* write puts back, outside the setter's own field, the bits it read before,
\* whatever has been written since; so with the two setters interleaved a
\* state is reached (C24_Witness) where both have returned with success and
\* the register does not hold the value of one of them.
C24_WriteBackOfStaleRead ==
    [][ \A s \in Setters :
          WriteStep(s) => /\ Field(s, reg_control') = rmw[s].val
                          /\ reg_control' - Field(s, reg_control') = rmw[s].cur ]_vars
C24_Witness ==
    /\ BothReturned
    /\ \E s \in Setters : Field(s, reg_control) # rmw[s].val

\* a step that reads a limit back right after it was written, the device
\* answering with the bytes it stored
ReadBack ==
    /\ AlertWritten
    /\ Fired("_read_alert_data") /\ last'.raised = ""
    /\ last'.arg = <<last.arg[1]>>
    /\ last'.bus[2].data = Val(alert_regs[last.arg[1]])

\* C25: an alert limit written and read back from a device that stores the
\* written bytes passes the checksum and returns a humidity within one step
\* of the 7-bit field (512 raw counts) of the humidity written, and the
\* packed raw humidity stays within 16 bits.
C25_AlertHumidityRoundTrip ==
    [][ ReadBack =>
          /\ last'.ret[2] # None
          /\ Val(last'.ret[2]) - last.arg[2][2] <= to_relative(512)
          /\ last.arg[2][2] - Val(last'.ret[2]) <= to_relative(512)
          /\ \A humd \in RawHumidity(last) : humd <= 65535 ]_vars

====
